---- MODULE Spec2Model ----
(***************************************************************************)
(* A model of nibabel/transform/linear.py: the Affine transform, its       *)
(* point / voxel mapping, resampling set-up, and its text serialisations   *)
(* (ITK family, AFNI, FSL) together with the module-level load().          *)
(*                                                                         *)
(* Numbers.  numpy's floats are modelled as exact rationals <<n, d>> with  *)
(* d > 0 and gcd(n, d) = 1.  Rounding of binary floating point is outside  *)
(* the model; the decimal rounding done by '%g' is inside it.              *)
(* Arrays.   An ndarray is a record [shape, v]; for a 2-D array v is the   *)
(* sequence of its rows.                                                   *)
(* Strings.  Format names are sequences of ASCII codes so that str.lower() *)
(* is computed, not assumed.                                               *)
(***************************************************************************)
EXTENDS Integers, Sequences, FiniteSets, TLC

VARIABLES
    xfm,      \* the transform the caller holds: None or [_matrix, _reference]
    self,     \* the object most recently passed through Affine.__init__,
              \* with its slots as they were when __init__ returned or raised
    M0,       \* the `matrix` argument xfm was constructed from
    ret,      \* outcome of the most recent call: what was called, on what,
              \* whether it raised, and the value returned
    stderr,   \* what the most recent call printed on sys.stderr
    fs        \* the file system: file name -> content (or NoFile)

vars == <<xfm, self, M0, ret, stderr, fs>>

\* Python values are records tagged with their kind, so that None, arrays,
\* images and strings can be told apart.
None == [kind |-> "None"]
Unset == [kind |-> "<unset slot>"]
NoFile == [kind |-> "<no such file>"]
IsNone(x) == x.kind = "None"

(***************************************************************************)
(* Exact rational arithmetic, standing for float arithmetic.               *)
(***************************************************************************)
\* a function on 1..n as a sequence value
AsSeq(f) == f \o <<>>

Abs(i) == IF i < 0 THEN -i ELSE i

RECURSIVE Gcd(_, _)
Gcd(a, b) == IF b = 0 THEN a ELSE Gcd(b, a % b)

RNorm(n, d) ==
    LET s == IF d < 0 THEN -1 ELSE 1
        g == Gcd(Abs(n), Abs(d))
    IN  <<(s * n) \div g, (s * d) \div g>>

R(i) == <<i, 1>>
RAdd(x, y) ==
    IF x[2] = 1 /\ y[2] = 1 THEN <<x[1] + y[1], 1>>
    ELSE RNorm(x[1] * y[2] + y[1] * x[2], x[2] * y[2])
RMul(x, y) ==
    IF x[1] = 0 \/ y[1] = 0 THEN <<0, 1>>
    ELSE IF x[2] = 1 /\ y[2] = 1 THEN <<x[1] * y[1], 1>>
    ELSE RNorm(x[1] * y[1], x[2] * y[2])
RNeg(x) == <<-x[1], x[2]>>
RSub(x, y) == RAdd(x, RNeg(y))
RDiv(x, y) == RNorm(x[1] * y[2], x[2] * y[1])
RAbs(x) == <<Abs(x[1]), x[2]>>
RLe(x, y) == x[1] * y[2] <= y[1] * x[2]
RLt(x, y) == x[1] * y[2] < y[1] * x[2]

RECURSIVE Pow10(_)
Pow10(k) == IF k = 0 THEN 1 ELSE 10 * Pow10(k - 1)

\* 10^e as a rational, e of either sign
RPow10(e) == IF e >= 0 THEN <<Pow10(e), 1>> ELSE <<1, Pow10(-e)>>

(***************************************************************************)
(* Vectors and matrices (sequences of rows) of rationals.                  *)
(***************************************************************************)
RECURSIVE RSum(_)
RSum(s) == IF s = <<>> THEN R(0) ELSE RAdd(s[1], RSum(Tail(s)))

VecDot(u, v) == RSum(AsSeq([k \in 1..Len(u) |-> RMul(u[k], v[k])]))

NRows(A) == Len(A)
NCols(A) == Len(A[1])
Col(A, j) == AsSeq([i \in 1..NRows(A) |-> A[i][j]])

\* ndarray.dot for a 2-D array and a 1-D array
MatVec(A, v) == AsSeq([i \in 1..NRows(A) |-> VecDot(A[i], v)])
\* ndarray.dot for two 2-D arrays
Transpose(B) == AsSeq([j \in 1..NCols(B) |-> Col(B, j)])
MatMul(A, B) ==
    LET Bt == Transpose(B)
    IN  AsSeq([i \in 1..NRows(A) |-> AsSeq([j \in 1..NRows(Bt) |-> VecDot(A[i], Bt[j])])])

\* np.eye(n)
Eye(n) == AsSeq([i \in 1..n |-> AsSeq([j \in 1..n |-> IF i = j THEN R(1) ELSE R(0)])])
\* np.diag(d)
Diag(d) == AsSeq([i \in 1..Len(d) |-> AsSeq([j \in 1..Len(d) |-> IF i = j THEN d[i] ELSE R(0)])])

Drop(s, k) == AsSeq([i \in 1..(Len(s) - 1) |-> IF i < k THEN s[i] ELSE s[i + 1]])
Minor(A, i, j) == AsSeq([r \in 1..(NRows(A) - 1) |-> Drop(Drop(A, i)[r], j)])

RECURSIVE Det(_)
Det(A) ==
    IF NRows(A) = 1 THEN A[1][1]
    ELSE IF NRows(A) = 2
    THEN RSub(RMul(A[1][1], A[2][2]), RMul(A[1][2], A[2][1]))
    ELSE IF NRows(A) = 3
    THEN RAdd(RSub(RMul(A[1][1], RSub(RMul(A[2][2], A[3][3]), RMul(A[2][3], A[3][2]))),
                   RMul(A[1][2], RSub(RMul(A[2][1], A[3][3]), RMul(A[2][3], A[3][1])))),
              RMul(A[1][3], RSub(RMul(A[2][1], A[3][2]), RMul(A[2][2], A[3][1]))))
    ELSE RSum(AsSeq([j \in 1..NCols(A) |->
              RMul(IF j % 2 = 1 THEN A[1][j] ELSE RNeg(A[1][j]), Det(Minor(A, 1, j)))]))

Cofactor(A, i, j) ==
    LET d == IF NRows(A) = 1 THEN R(1) ELSE Det(Minor(A, i, j))
    IN  IF (i + j) % 2 = 0 THEN d ELSE RNeg(d)

\* np.linalg.inv raises LinAlgError on a singular matrix
Singular(A) == Det(A) = R(0)
\* np.linalg.inv of a non-singular square matrix: adjugate over determinant
Inv(A) ==
    LET d == Det(A)
    IN  AsSeq([i \in 1..NRows(A) |-> AsSeq([j \in 1..NRows(A) |-> RDiv(Cofactor(A, j, i), d)])])

\* integer matrix given as rows of integers -> rows of rationals
Rows(m) == AsSeq([i \in 1..Len(m) |-> AsSeq([j \in 1..Len(m[i]) |-> R(m[i][j])])])
\* a 2-D ndarray holding the rows A
NdArray2(A) == [kind |-> "ndarray", shape |-> <<NRows(A), NCols(A)>>, v |-> A]
\* a 2-D array-like from rows of integers
Arr2(m) == NdArray2(Rows(m))
\* a point / index given as integers
Pt(p) == AsSeq([k \in 1..Len(p) |-> R(p[k])])

(***************************************************************************)
(* Bounds and inputs.                                                      *)
(***************************************************************************)
\* coordinates of the points and voxel indices handed to the mapping calls
MaxCoord == 1

\* the 4x4 matrix of the Affine docstring: a translation by 4 along x
M_DOC == Arr2(<< <<1, 0, 0, 4>>, <<0, 1, 0, 0>>, <<0, 0, 1, 0>>, <<0, 0, 0, 1>> >>)
\* a general affine: determinant -2, no zero in the linear block, and a
\* translation with more than six significant digits
M_GEN == Arr2(<< <<2, 1, 3, 1234567>>, <<1, 1, 2, -2>>, <<1, 2, 1, 5>>, <<0, 0, 0, 1>> >>)
\* invertible, but the last row is not (0, 0, 0, 1)
M_PROJ == Arr2(<< <<1, 0, 0, 1>>, <<0, 1, 0, 0>>, <<0, 0, 1, 0>>, <<1, 0, 0, 2>> >>)
\* homogeneous, with entries that are not whole numbers: 0.5, -0.125 and
\* 123.45675 (eight significant digits)
M_FRAC == NdArray2(<< <<<<1, 2>>, R(0), R(0), <<493827, 4000>>>>,
                      <<R(0), R(1), <<-1, 8>>, R(0)>>,
                      <<R(0), R(0), R(2), R(-3)>>,
                      <<R(0), R(0), R(0), R(1)>> >>)
\* square and singular
M_SING == Arr2(<< <<1, 0, 0, 0>>, <<0, 0, 0, 0>>, <<0, 0, 1, 0>>, <<0, 0, 0, 1>> >>)
\* a 3x3 homogeneous matrix of the plane: quarter turn, scale 2, translation
M_PLANE == Arr2(<< <<0, -2, 3>>, <<2, 0, 1>>, <<0, 0, 1>> >>)
\* not square
M_3x4 == Arr2(<< <<1, 0, 0, 4>>, <<0, 1, 0, 0>>, <<0, 0, 1, 0>> >>)
\* one-dimensional
M_1D == [kind |-> "ndarray", shape |-> <<4>>, v |-> Pt(<<1, 0, 0, 1>>)]
\* a stack: three-dimensional with equal leading axes
M_STACK == [kind |-> "ndarray", shape |-> <<2, 2, 3>>,
            v |-> << Rows(<< <<1, 0, 0>>, <<0, 1, 0>> >>), Rows(<< <<0, 1, 0>>, <<1, 0, 1>> >>) >>]
\* three-dimensional with unequal leading axes
M_3D_BAD == [kind |-> "ndarray", shape |-> <<1, 2, 2>>,
             v |-> << Rows(<< <<1, 0>>, <<0, 1>> >>) >>]
\* four-dimensional
M_4D == [kind |-> "ndarray", shape |-> <<1, 1, 1, 1>>, v |-> << << <<Pt(<<1>>)>> >> >>]

MatrixArgs == {None, M_DOC, M_GEN, M_FRAC, M_PROJ, M_SING, M_PLANE, M_3x4, M_1D, M_STACK, M_3D_BAD, M_4D}

\* Images (spatialimage): an affine, a grid shape, the header's data type and
\* the data block (opaque).
IMG_UNIT == [kind |-> "image", affine |-> Eye(4), shape |-> <<2, 2, 2>>,
             dtype |-> "int16", data |-> "unit.data"]
\* 2 mm voxels with an origin offset: positive determinant
IMG_ZOOM == [kind |-> "image",
             affine |-> Rows(<< <<2, 0, 0, -3>>, <<0, 2, 0, 1>>, <<0, 0, 2, 0>>, <<0, 0, 0, 1>> >>),
             shape |-> <<3, 2, 2>>, dtype |-> "float32", data |-> "zoom.data"]
\* x axis flipped: negative determinant
IMG_FLIP == [kind |-> "image",
             affine |-> Rows(<< <<-1, 0, 0, 2>>, <<0, 1, 0, 0>>, <<0, 0, 1, 0>>, <<0, 0, 0, 1>> >>),
             shape |-> <<2, 3, 2>>, dtype |-> "uint8", data |-> "flip.data"]
Images == {IMG_UNIT, IMG_ZOOM, IMG_FLIP}
\* an image kept on disk: identity affine, a wider grid
IMG_WIDE == [kind |-> "image", affine |-> Eye(4), shape |-> <<4, 2, 2>>,
             dtype |-> "int16", data |-> "wide.data"]

\* integer tuples of length n over 0..MaxCoord
Tuples(n) == [1..n -> 0..MaxCoord]
\* the coords / index arguments: points of the plane and of space, and
\* 4-vectors (already homogeneous for a 4x4 matrix, too long for a 3x3 one)
CoordArgs == {Pt(p) : p \in Tuples(2) \cup Tuples(3)} \cup {Pt(<<1, 0, 1, 1>>), Pt(<<0, 1, 0, 0>>)}

(***************************************************************************)
(* numpy helpers used by Affine.                                           *)
(***************************************************************************)
\* np.array(matrix): a fresh ndarray with the shape and elements of `matrix`
np_array(matrix) == [kind |-> "ndarray", shape |-> matrix.shape, v |-> matrix.v]
ndim(a) == Len(a.shape)
\* np.append(coords, [1])
np_append1(coords) == Append(coords, R(1))
\* a[:-1] of a 1-D array
ButLast(a) == SubSeq(a, 1, Len(a) - 1)

(***************************************************************************)
(* TransformBase (nibabel/transform/base.py): the reference slot.          *)
(***************************************************************************)
\* TransformBase.__init__: the reference starts undefined
TransformBase_init(slots) == [slots EXCEPT !._reference = None]
\* reference.setter: keeps the space of the image (its affine and shape)
ImageSpace(image) == [kind |-> "space", affine |-> image.affine, shape |-> image.shape]
set_reference(slots, image) == [slots EXCEPT !._reference = ImageSpace(image)]
\* reference getter: raises ValueError while the reference is undefined
reference_raises(slots) == IsNone(slots._reference)

(***************************************************************************)
(* Affine.__init__                                                         *)
(***************************************************************************)
Ok == ""
\* truth value of an optional object argument (`if reference:`)
Truthy(x) == ~IsNone(x)

NewObject == [kind |-> "Affine", _matrix |-> Unset, _reference |-> Unset]

\* __init__ with the dimension test widened to `ndim >= 2`
Affine_init_ndim_ge_2(matrix, reference) ==
    LET m  == IF IsNone(matrix) THEN NdArray2(Eye(4)) ELSE matrix
        s1 == [NewObject EXCEPT !._matrix = np_array(m)]
    IN  IF ndim(s1._matrix) < 2
        THEN [slots |-> s1, exc |-> "AssertionError", msg |-> "affine matrix should be 2D or 3D"]
        ELSE IF s1._matrix.shape[1] # s1._matrix.shape[2]
        THEN [slots |-> s1, exc |-> "AssertionError", msg |-> "affine matrix is not square"]
        ELSE LET s2 == TransformBase_init(s1)
                 s3 == IF Truthy(reference) THEN set_reference(s2, reference) ELSE s2
             IN  [slots |-> s3, exc |-> Ok, msg |-> ""]

\* __init__ without the squareness test
Affine_init_no_square_test(matrix, reference) ==
    LET m  == IF IsNone(matrix) THEN NdArray2(Eye(4)) ELSE matrix
        s1 == [NewObject EXCEPT !._matrix = np_array(m)]
    IN  IF ndim(s1._matrix) \notin {2, 3}
        THEN [slots |-> s1, exc |-> "AssertionError", msg |-> "affine matrix should be 2D or 3D"]
        ELSE LET s2 == TransformBase_init(s1)
                 s3 == IF Truthy(reference) THEN set_reference(s2, reference) ELSE s2
             IN  [slots |-> s3, exc |-> Ok, msg |-> ""]

\* __init__ that scales a 2-D matrix so that its last element is 1
Affine_init_normalising(matrix, reference) ==
    LET m  == IF IsNone(matrix) THEN NdArray2(Eye(4)) ELSE matrix
        n  == m.shape[1]
        w  == IF ndim(m) = 2 /\ m.shape = <<n, n>> /\ m.v[n][n][1] # 0 THEN m.v[n][n] ELSE R(1)
        nm == IF w = R(1) THEN m
              ELSE [m EXCEPT !.v = AsSeq([i \in 1..n |-> AsSeq([j \in 1..n |-> RDiv(m.v[i][j], w)])])]
        s1 == [NewObject EXCEPT !._matrix = np_array(nm)]
    IN  IF ndim(s1._matrix) \notin {2, 3}
        THEN [slots |-> s1, exc |-> "AssertionError", msg |-> "affine matrix should be 2D or 3D"]
        ELSE IF s1._matrix.shape[1] # s1._matrix.shape[2]
        THEN [slots |-> s1, exc |-> "AssertionError", msg |-> "affine matrix is not square"]
        ELSE LET s2 == TransformBase_init(s1)
                 s3 == IF Truthy(reference) THEN set_reference(s2, reference) ELSE s2
             IN  [slots |-> s3, exc |-> Ok, msg |-> ""]

\* The slots of the new object when __init__ ends, and the exception it
\* ended with (Ok when it returned).
Affine_init(matrix, reference) ==
    LET m  == IF IsNone(matrix) THEN NdArray2(Eye(4)) ELSE matrix
        s1 == [NewObject EXCEPT !._matrix = np_array(m)]
    IN  IF ndim(s1._matrix) \notin {2, 3}
        THEN [slots |-> s1, exc |-> "AssertionError", msg |-> "affine matrix should be 2D or 3D"]
        ELSE IF s1._matrix.shape[1] # s1._matrix.shape[2]
        THEN [slots |-> s1, exc |-> "AssertionError", msg |-> "affine matrix is not square"]
        ELSE LET s2 == TransformBase_init(s1)
                 s3 == IF Truthy(reference) THEN set_reference(s2, reference) ELSE s2
             IN  [slots |-> s3, exc |-> Ok, msg |-> ""]

\* Affine.matrix
matrix_of(t) == t._matrix

(***************************************************************************)
(* Affine.map_point                                                        *)
(***************************************************************************)
\* map_point that applies the matrix itself in both directions
map_point_never_inverts(t, coords, forward) ==
    LET A  == t._matrix.v
        c  == IF Len(coords) = t._matrix.shape[1] - 1 THEN np_append1(coords) ELSE coords
    IN  IF Len(c) # NCols(A)
        THEN [exc |-> "ValueError", val |-> <<>>]
        ELSE [exc |-> Ok, val |-> ButLast(MatVec(A, c))]

\* [exc, val]: the mapped coordinates, or the exception numpy raises
map_point(t, coords, forward) ==
    LET A  == t._matrix.v
        c  == IF Len(coords) = t._matrix.shape[1] - 1 THEN np_append1(coords) ELSE coords
    IN  IF ~forward /\ Singular(A)
        THEN [exc |-> "LinAlgError", val |-> <<>>]
        ELSE IF Len(c) # NCols(A)
        THEN [exc |-> "ValueError", val |-> <<>>]
        ELSE [exc |-> Ok, val |-> ButLast(MatVec(IF forward THEN A ELSE Inv(A), c))]

(***************************************************************************)
(* Affine.map_voxel and Affine.resample                                    *)
(***************************************************************************)
BothUndefined == "Reference and moving spaces are both undefined"
NoReferenceWarning == "Warning: no reference space defined, using moving as reference"

\* the same block with the print call of the except clause left out
map_voxel_spaces_silent(t, moving) ==
    IF reference_raises(t)
    THEN [reference |-> moving, moving |-> moving, warn |-> FALSE]
    ELSE [reference |-> t._reference,
          moving    |-> IF IsNone(moving) THEN t._reference ELSE moving,
          warn      |-> FALSE]

\* the try / except ValueError / else / finally block that resolves the two
\* spaces in map_voxel: [reference, moving, warn]
map_voxel_spaces(t, moving) ==
    IF reference_raises(t)
    THEN [reference |-> moving, moving |-> moving, warn |-> TRUE]
    ELSE [reference |-> t._reference,
          moving    |-> IF IsNone(moving) THEN t._reference ELSE moving,
          warn      |-> FALSE]

\* the matrix map_voxel applies to the index
map_voxel_matrix(t, reference, moving) ==
    MatMul(reference.affine, MatMul(t._matrix.v, Inv(moving.affine)))

\* map_voxel without the finally clause: None.affine is then looked up
map_voxel_no_finally(t, index, moving) ==
    LET sp == map_voxel_spaces(t, moving)
        ix == IF Len(index) = t._matrix.shape[1] - 1 THEN np_append1(index) ELSE index
    IN  IF IsNone(sp.reference)
        THEN [exc |-> "AttributeError", msg |-> "", val |-> <<>>, warn |-> sp.warn]
        ELSE IF Singular(sp.moving.affine)
        THEN [exc |-> "LinAlgError", msg |-> "", val |-> <<>>, warn |-> sp.warn]
        ELSE IF NCols(t._matrix.v) # NRows(sp.moving.affine)
                \/ NCols(sp.reference.affine) # NRows(t._matrix.v)
                \/ Len(ix) # NCols(sp.moving.affine)
        THEN [exc |-> "ValueError", msg |-> "shapes not aligned", val |-> <<>>, warn |-> sp.warn]
        ELSE [exc |-> Ok, msg |-> "",
              val |-> ButLast(MatVec(map_voxel_matrix(t, sp.reference, sp.moving), ix)),
              warn |-> sp.warn]

\* [exc, msg, val, warn]
map_voxel(t, index, moving) ==
    LET sp == map_voxel_spaces(t, moving)
        ix == IF Len(index) = t._matrix.shape[1] - 1 THEN np_append1(index) ELSE index
    IN  IF IsNone(sp.reference)
        THEN [exc |-> "ValueError", msg |-> BothUndefined, val |-> <<>>, warn |-> sp.warn]
        ELSE IF Singular(sp.moving.affine)
        THEN [exc |-> "LinAlgError", msg |-> "", val |-> <<>>, warn |-> sp.warn]
        ELSE IF NCols(t._matrix.v) # NRows(sp.moving.affine)
                \/ NCols(sp.reference.affine) # NRows(t._matrix.v)
                \/ Len(ix) # NCols(sp.moving.affine)
        THEN [exc |-> "ValueError", msg |-> "shapes not aligned", val |-> <<>>, warn |-> sp.warn]
        ELSE [exc |-> Ok, msg |-> "",
              val |-> ButLast(MatVec(map_voxel_matrix(t, sp.reference, sp.moving), ix)),
              warn |-> sp.warn]

\* the index to index matrix resample composes
resample_matrix(t, reference, moving) ==
    MatMul(Inv(moving.affine), MatMul(t._matrix.v, reference.affine))

\* matrix[:n, :n] and matrix[:n, n]
TopLeft(A, n) == AsSeq([i \in 1..n |-> SubSeq(A[i], 1, n)])
OffsetCol(A, n) == AsSeq([i \in 1..n |-> A[i][n + 1]])

\* scipy.ndimage.affine_transform: the interpolation kernel is external; the
\* resampled block is identified by the arguments it was computed from
ndi_affine_transform(mdata, matrix, offset, output_shape) ==
    [input |-> mdata, matrix |-> matrix, offset |-> offset, output_shape |-> output_shape]

\* [exc, val, warn]; val is the moved image
resample(t, moving, output_dtype) ==
    LET dt  == IF IsNone(output_dtype) THEN moving.dtype ELSE output_dtype.s
        und == reference_raises(t)
        reference == IF und THEN moving ELSE t._reference
        nd  == Len(moving.shape)
    IN  IF Singular(moving.affine)
        THEN [exc |-> "LinAlgError", val |-> None, warn |-> und]
        ELSE IF NCols(t._matrix.v) # NRows(reference.affine)
        THEN [exc |-> "ValueError", val |-> None, warn |-> und]
        ELSE LET matrix == resample_matrix(t, reference, moving)
                 moved  == ndi_affine_transform(moving.data, TopLeft(matrix, nd),
                                                OffsetCol(matrix, nd), reference.shape)
             IN  [exc |-> Ok, warn |-> und,
                  val |-> [kind |-> "image", affine |-> reference.affine,
                           shape |-> reference.shape, dtype |-> dt, data |-> moved]]

(***************************************************************************)
(* Text.  str.lower(), '%g' formatting and the parsing of decimal numerals *)
(***************************************************************************)
\* str.lower() on a string given as its ASCII codes
LowerChar(c) == IF c >= 65 /\ c <= 90 THEN c + 32 ELSE c
Lower(str) == AsSeq([k \in 1..Len(str) |-> LowerChar(str[k])])

S_itk     == <<105, 116, 107>>
S_ants    == <<97, 110, 116, 115>>
S_elastix == <<101, 108, 97, 115, 116, 105, 120>>
S_nifty   == <<110, 105, 102, 116, 121>>
S_afni    == <<97, 102, 110, 105>>
S_fsl     == <<102, 115, 108>>
\* ['itk', 'ants', 'elastix', 'nifty']
ItkFamily == {S_itk, S_ants, S_elastix, S_nifty}

\* A decimal numeral, as it stands in a text file: mant * 10^exp, written
\* without trailing zeros in mant.
RECURSIVE Canon(_, _)
Canon(mant, exp) ==
    IF mant = 0 THEN [mant |-> 0, exp |-> 0]
    ELSE IF mant % 10 = 0 THEN Canon(mant \div 10, exp + 1)
    ELSE [mant |-> mant, exp |-> exp]

RECURSIVE ExpUp(_, _)
ExpUp(a, e) == IF RLe(RPow10(e + 1), a) THEN ExpUp(a, e + 1) ELSE e
RECURSIVE ExpDown(_, _)
ExpDown(a, e) == IF RLt(a, RPow10(e)) THEN ExpDown(a, e - 1) ELSE e
\* the decimal exponent of a > 0: 10^e <= a < 10^(e+1)
Exp10(a) == IF RLe(R(1), a) THEN ExpUp(a, 0) ELSE ExpDown(a, -1)

\* nearest integer to q >= 0, ties to even
RoundHalfEven(q) ==
    LET fl == q[1] \div q[2]
        r2 == 2 * (q[1] % q[2])
    IN  IF r2 < q[2] THEN fl
        ELSE IF r2 > q[2] THEN fl + 1
        ELSE IF fl % 2 = 0 THEN fl ELSE fl + 1

\* x rendered with p significant digits
FmtSig(x, p) ==
    IF x[1] = 0 THEN Canon(0, 0)
    ELSE LET a == RAbs(x)
             e == Exp10(a)
             k == RoundHalfEven(RMul(a, RPow10(p - 1 - e)))
         IN  Canon(IF x[1] < 0 THEN -k ELSE k, e - p + 1)

\* '%g' % x: six significant digits
FmtG(x) == FmtSig(x, 6)

\* np.savetxt's default '%.18e': nineteen significant digits, which renders
\* exactly every value with a finite decimal expansion of that length
RECURSIVE FmtExact(_, _)
FmtExact(x, e) == IF x[2] = 1 THEN Canon(x[1], e) ELSE FmtExact(RMul(x, R(10)), e - 1)
FmtE18(x) == FmtExact(x, 0)

\* float(token): the value of a decimal numeral
ParseFloat(d) == RMul(R(d.mant), RPow10(d.exp))
\* np.fromstring(text, dtype=float, sep=' ')
np_fromstring(nums) == AsSeq([k \in 1..Len(nums) |-> ParseFloat(nums[k])])

\* One line of a text file: the text up to and including its last ':' (the
\* whole text when it holds no numbers) and the numerals after it.
Line(text, nums) == [text |-> text, nums |-> nums]
TextFile(lines) == [kind |-> "text", lines |-> lines]

(***************************************************************************)
(* Affine.to_filename                                                      *)
(***************************************************************************)
LPS == Diag(<<R(-1), R(-1), R(1), R(1)>>)

\* a.reshape(-1) of a 2-D array: row-major flattening
RECURSIVE Flatten(_)
Flatten(A) == IF A = <<>> THEN <<>> ELSE A[1] \o Flatten(Tail(A))
\* each value of a list as '%g' text, and as '%.18e' text
FmtAllG(xs) == AsSeq([k \in 1..Len(xs) |-> FmtG(xs[k])])
FmtAllE18(xs) == AsSeq([k \in 1..Len(xs) |-> FmtE18(xs[k])])

\* LPS.dot(self.matrix.dot(LPS)) needs a 4x4 matrix
LpsAligned(t) == t._matrix.shape = <<4, 4>>
lps_matrix(t) == MatMul(LPS, MatMul(matrix_of(t).v, LPS))

\* the twelve parameters taken from self.matrix as it is
itk_parameters_ras(t) ==
    LET P == matrix_of(t).v
    IN  Flatten(TopLeft(P, 3)) \o OffsetCol(P, 3)

\* the twelve ITK parameters
itk_parameters(t) ==
    LET P == lps_matrix(t)
    IN  Flatten(TopLeft(P, 3)) \o OffsetCol(P, 3)

itk_file(t) ==
    TextFile(<< Line("#Insight Transform File V1.0", <<>>),
                Line("#Transform 0", <<>>),
                Line("Transform: MatrixOffsetTransformBase_double_3_3", <<>>),
                Line("Parameters:", FmtAllG(itk_parameters(t))),
                Line("FixedParameters:", <<Canon(0, 0), Canon(0, 0), Canon(0, 0)>>) >>)

afni_file(t) ==
    TextFile(<< Line("# 3dvolreg matrices (DICOM-to-DICOM, row-by-row):", <<>>),
                Line("", FmtAllE18(Flatten(SubSeq(lps_matrix(t), 1, 3)))) >>)

\* nibabel.affines.voxel_sizes: the lengths of the columns of the linear
\* block.  The square root is exact here: the affines of Images have column
\* lengths that are whole numbers.
ISqrt(n) == CHOOSE k \in 0..n : k * k = n
RSqrt(x) == <<ISqrt(x[1]), ISqrt(x[2])>>
voxel_sizes(aff) ==
    LET n == NRows(aff) - 1
    IN  AsSeq([j \in 1..n |-> RSqrt(RSum(AsSeq([i \in 1..n |-> RMul(aff[i][j], aff[i][j])])))])

\* _fsl_aff_adapt with the test on the determinant reversed
fsl_aff_adapt_det_negative(space) ==
    LET aff   == space.affine
        zooms == Append(voxel_sizes(aff), R(1))
        flip  == RLt(Det(aff), R(0))
        swp   == AsSeq([i \in 1..4 |-> AsSeq([j \in 1..4 |->
                    IF flip /\ i = 1 /\ j = 1 THEN R(-1)
                    ELSE IF flip /\ i = 1 /\ j = 4
                    THEN RMul(R(space.shape[1] - 1), zooms[1])
                    ELSE Eye(4)[i][j]])])
    IN  <<swp, Diag(zooms)>>

\* _fsl_aff_adapt(space): <<swp, diag(zooms)>>
fsl_aff_adapt(space) ==
    LET aff   == space.affine
        zooms == Append(voxel_sizes(aff), R(1))
        flip  == RLt(R(0), Det(aff))
        swp   == AsSeq([i \in 1..4 |-> AsSeq([j \in 1..4 |->
                    IF flip /\ i = 1 /\ j = 1 THEN R(-1)
                    ELSE IF flip /\ i = 1 /\ j = 4
                    THEN RMul(R(space.shape[1] - 1), zooms[1])
                    ELSE Eye(4)[i][j]])])
    IN  <<swp, Diag(zooms)>>

\* the matrix the FSL branch writes, for a 4x4 non-singular self.matrix
fsl_matrix(t, reference, moving) ==
    LET ra   == fsl_aff_adapt(reference)
        pre  == MatMul(reference.affine, MatMul(Inv(ra[2]), Inv(ra[1])))
        ma   == fsl_aff_adapt(moving)
        post == MatMul(Inv(ma[1]), MatMul(ma[2], Inv(moving.affine)))
    IN  Inv(MatMul(post, MatMul(matrix_of(t).v, pre)))

\* np.savetxt(filename, mat, delimiter=' ', fmt='%g')
fsl_file(mat) == TextFile(AsSeq([i \in 1..NRows(mat) |-> Line("", FmtAllG(mat[i]))]))

\* nibabel.loadsave.load: the image files on disk
ImagePaths == {"wide.nii"}
loadimg(path) == IF path = "wide.nii" THEN IMG_WIDE ELSE None
Str(path) == [kind |-> "str", s |-> path]
IsStr(x) == x.kind = "str"

\* Affine._to_hdf5 and TransformBase.to_filename: the native container.
\* Transform is written before Inverse is computed, so a singular matrix
\* leaves a file without Inverse and Type.
hdf5_reference(space) ==
    [vox2ras |-> space.affine, ras2vox |-> Inv(space.affine), shape |-> space.shape,
     ndim |-> Len(space.shape), Type |-> "image"]
to_hdf5(t) ==
    LET tr == SubSeq(t._matrix.v, 1, 3)
    IN  IF Singular(t._matrix.v)
        THEN [kind |-> "hdf5", Transform |-> tr, Inverse |-> <<>>, Type |-> "",
              Reference |-> None]
        ELSE [kind |-> "hdf5", Transform |-> tr, Inverse |-> SubSeq(Inv(t._matrix.v), 1, 3),
              Type |-> "affine",
              Reference |-> IF Truthy(t._reference) THEN hdf5_reference(t._reference)
                            ELSE None]
base_to_filename(t) ==
    [exc |-> IF Singular(t._matrix.v) THEN "LinAlgError" ELSE Ok, wrote |-> TRUE,
     file |-> to_hdf5(t)]

Raise(e) == [exc |-> e, wrote |-> FALSE, file |-> NoFile]
Wrote(f) == [exc |-> Ok, wrote |-> TRUE, file |-> f]

\* the `fsl` branch of to_filename
to_filename_fsl(t, moving) ==
    IF reference_raises(t) THEN Raise("ValueError")
    ELSE LET mv0 == IF Truthy(moving) THEN moving ELSE t._reference
             mv  == IF IsStr(mv0) THEN loadimg(mv0.s) ELSE mv0
         IN  IF ~LpsAligned(t) THEN Raise("ValueError")
             ELSE IF Singular(t._matrix.v) THEN Raise("LinAlgError")
             ELSE Wrote(fsl_file(fsl_matrix(t, t._reference, mv)))

\* [exc, wrote, file]: the exception raised (Ok: the file name is returned),
\* whether the file was opened for writing, and what it then holds
to_filename(t, fmt, moving) ==
    IF Lower(fmt) \in ItkFamily
    THEN IF LpsAligned(t) THEN Wrote(itk_file(t)) ELSE Raise("ValueError")
    ELSE IF Lower(fmt) = S_afni
    THEN IF LpsAligned(t) THEN Wrote(afni_file(t)) ELSE Raise("ValueError")
    ELSE IF Lower(fmt) = S_fsl
    THEN to_filename_fsl(t, moving)
    ELSE base_to_filename(t)

(***************************************************************************)
(* load                                                                    *)
(***************************************************************************)
\* nibabel.affines.from_matvec: the homogeneous matrix of a linear block and
\* a translation
from_matvec(A, vec) ==
    AsSeq([i \in 1..(NRows(A) + 1) |-> AsSeq([j \in 1..(NRows(A) + 1) |->
        IF i <= NRows(A) /\ j <= NRows(A) THEN A[i][j]
        ELSE IF i <= NRows(A) THEN vec[i]
        ELSE IF j <= NRows(A) THEN R(0) ELSE R(1)])])

\* a.reshape((3, 3)) of nine values
Reshape33(a) == AsSeq([i \in 1..3 |-> AsSeq([j \in 1..3 |-> a[3 * (i - 1) + j]])])
Scale(vec, c) == AsSeq([k \in 1..Len(vec) |-> RMul(vec[k], c)])

\* the matrix built from the parameters without the change to RAS
itk_matrix_lps(parameters, offset) ==
    LET matrix == from_matvec(Reshape33(SubSeq(parameters, 1, 9)), SubSeq(parameters, 10, 12))
        c_neg  == from_matvec(Eye(3), Scale(offset, R(-1)))
        c_pos  == from_matvec(Eye(3), offset)
    IN  MatMul(c_pos, MatMul(matrix, c_neg))

\* the matrix load builds from twelve parameters and the fixed parameters
itk_matrix(parameters, offset) ==
    LET matrix == from_matvec(Reshape33(SubSeq(parameters, 1, 9)), SubSeq(parameters, 10, 12))
        c_neg  == from_matvec(Eye(3), Scale(offset, R(-1)))
        c_pos  == from_matvec(Eye(3), offset)
    IN  MatMul(LPS, MatMul(c_pos, MatMul(matrix, MatMul(c_neg, LPS))))

\* load with `matrix = None` set on entry: a format or parameter count it
\* does not handle then gives the default transform
load_default_matrix(file, fmt, reference) ==
    LET Fail(e) == [exc |-> e, slots |-> None, arg |-> None]
        ref == IF Truthy(reference) /\ IsStr(reference) THEN loadimg(reference.s)
               ELSE reference
        Default == LET o == Affine_init(None, ref)
                   IN  [exc |-> o.exc, slots |-> o.slots, arg |-> None]
    IN  IF Lower(fmt) \in ItkFamily
        THEN IF file = NoFile THEN Fail("IOError")
             ELSE IF file.kind # "text" THEN Fail("UnicodeDecodeError")
             ELSE IF Len(file.lines) < 5 THEN Fail("IndexError")
             ELSE LET parameters == np_fromstring(file.lines[4].nums)
                      offset     == np_fromstring(file.lines[5].nums)
                  IN  IF Len(parameters) # 12 THEN Default
                      ELSE IF Len(offset) # 3 THEN Fail("ValueError")
                      ELSE LET m == NdArray2(itk_matrix(parameters, offset))
                               o == Affine_init(m, ref)
                           IN  [exc |-> o.exc, slots |-> o.slots, arg |-> m]
        ELSE Default

\* [exc, slots, arg]: the exception load ends with, or the slots of the
\* transform it returns and the matrix it handed to Affine
load(file, fmt, reference) ==
    LET Fail(e) == [exc |-> e, slots |-> None, arg |-> None]
        ref == IF Truthy(reference) /\ IsStr(reference) THEN loadimg(reference.s)
               ELSE reference
    IN  IF Lower(fmt) \in ItkFamily
        THEN IF file = NoFile THEN Fail("IOError")
             ELSE IF file.kind # "text" THEN Fail("UnicodeDecodeError")
             ELSE IF Len(file.lines) < 5 THEN Fail("IndexError")
             ELSE LET parameters == np_fromstring(file.lines[4].nums)
                      offset     == np_fromstring(file.lines[5].nums)
                  IN  IF Len(parameters) # 12 THEN Fail("UnboundLocalError")
                      ELSE IF Len(offset) # 3 THEN Fail("ValueError")
                      ELSE LET m == NdArray2(itk_matrix(parameters, offset))
                               o == Affine_init(m, ref)
                           IN  [exc |-> o.exc, slots |-> o.slots, arg |-> m]
        ELSE Fail("UnboundLocalError")

(***************************************************************************)
(* The calling program: it holds one transform and one transform file, and *)
(* calls the operations in any order with any of the inputs.               *)
(***************************************************************************)
S_X5   == <<88, 53>>
S_ITK  == <<73, 84, 75>>
S_Ants == <<65, 110, 116, 115>>
S_FSL  == <<70, 83, 76>>
FmtArgs == {S_X5, S_itk, S_ITK, S_Ants, S_elastix, S_nifty, S_afni, S_fsl, S_FSL}

\* the file to_filename writes, and the files load may be pointed at
OutName == "xfm.tfm"
\* a transform file of a 2-D registration: six parameters
EXT_2D == TextFile(<< Line("#Insight Transform File V1.0", <<>>),
                      Line("#Transform 0", <<>>),
                      Line("Transform: MatrixOffsetTransformBase_double_2_2", <<>>),
                      Line("Parameters:", FmtAllG(Pt(<<1, 0, 0, 1, 3, 4>>))),
                      Line("FixedParameters:", FmtAllG(Pt(<<0, 0>>))) >>)
\* a transform file written by ITK with a centre of rotation
EXT_CENTRE == TextFile(<< Line("#Insight Transform File V1.0", <<>>),
                          Line("#Transform 0", <<>>),
                          Line("Transform: MatrixOffsetTransformBase_double_3_3", <<>>),
                          Line("Parameters:",
                               FmtAllG(Pt(<<0, -1, 0, 1, 0, 0, 0, 0, 1, 2, 0, 0>>))),
                          Line("FixedParameters:", FmtAllG(Pt(<<1, 1, 0>>))) >>)
FileNames == {OutName, "ext2d.tfm", "centre.tfm", "missing.tfm"}

Live == xfm.kind = "Affine"
\* the mapping and writing calls are modelled for single (2-D) matrices
Is2D(t) == ndim(t._matrix) = 2
Ready == Live /\ Is2D(xfm)

Warnings(w) == IF w THEN <<NoReferenceWarning>> ELSE <<>>
\* the caller has taken note of the last outcome and is about to call again
IdleRet == [op |-> "idle", exc |-> Ok, msg |-> ""]
Idle == ret.op = "idle"

Init ==
    /\ xfm = None
    /\ self = None
    /\ M0 = None
    /\ ret = IdleRet
    /\ stderr = <<>>
    /\ fs = [n \in FileNames |-> CASE n = "ext2d.tfm" -> EXT_2D
                                   [] n = "centre.tfm" -> EXT_CENTRE
                                   [] OTHER -> NoFile]

\* xfm = Affine(matrix, reference)
Construct(matrix, reference) ==
    /\ Idle
    /\ \E o \in {Affine_init(matrix, reference)} :
        /\ self' = o.slots
        /\ xfm' = IF o.exc = Ok THEN o.slots ELSE xfm
        /\ M0' = IF o.exc = Ok THEN matrix ELSE M0
        /\ ret' = [op |-> "Affine", exc |-> o.exc, msg |-> o.msg,
                   matrix |-> matrix, reference |-> reference]
        /\ stderr' = <<>>
        /\ UNCHANGED fs

\* xfm.reference = image
SetReference(image) ==
    /\ Idle /\ Live
    /\ xfm' = set_reference(xfm, image)
    /\ ret' = [op |-> "reference", exc |-> Ok, msg |-> "", image |-> image]
    /\ stderr' = <<>>
    /\ UNCHANGED <<self, M0, fs>>

\* xfm.map_point(coords, forward)
MapPoint(coords, forward) ==
    /\ Idle /\ Ready
    /\ LET r == map_point(xfm, coords, forward)
       IN  ret' = [op |-> "map_point", exc |-> r.exc, msg |-> "", coords |-> coords,
                   forward |-> forward, val |-> r.val, chained |-> FALSE, origin |-> coords]
    /\ stderr' = <<>>
    /\ UNCHANGED <<xfm, self, M0, fs>>

\* xfm.map_point(q, not forward) where q is what the previous call,
\* xfm.map_point(p, forward), returned
MapPointBack ==
    /\ Ready
    /\ ret.op = "map_point" /\ ret.exc = Ok /\ ~ret.chained
    /\ LET r == map_point(xfm, ret.val, ~ret.forward)
       IN  ret' = [op |-> "map_point", exc |-> r.exc, msg |-> "", coords |-> ret.val,
                   forward |-> ~ret.forward, val |-> r.val, chained |-> TRUE,
                   origin |-> ret.coords]
    /\ stderr' = <<>>
    /\ UNCHANGED <<xfm, self, M0, fs>>

\* xfm.map_voxel(index, moving)
MapVoxel(index, moving) ==
    /\ Idle /\ Ready
    /\ \E r \in {map_voxel(xfm, index, moving)} :
           /\ ret' = [op |-> "map_voxel", exc |-> r.exc, msg |-> r.msg, index |-> index,
                      moving |-> moving, val |-> r.val]
           /\ stderr' = Warnings(r.warn)
    /\ UNCHANGED <<xfm, self, M0, fs>>

\* xfm.resample(moving, output_dtype=output_dtype)
Resample(moving, output_dtype) ==
    /\ Idle /\ Ready
    /\ \E r \in {resample(xfm, moving, output_dtype)} :
           /\ ret' = [op |-> "resample", exc |-> r.exc, msg |-> "", moving |-> moving,
                      output_dtype |-> output_dtype, val |-> r.val]
           /\ stderr' = Warnings(r.warn)
    /\ UNCHANGED <<xfm, self, M0, fs>>

\* xfm.to_filename(OutName, fmt, moving)
ToFilename(fmt, moving) ==
    /\ Idle /\ Ready
    /\ \E r \in {to_filename(xfm, fmt, moving)} :
           /\ ret' = [op |-> "to_filename", exc |-> r.exc, msg |-> "", fmt |-> fmt,
                      moving |-> moving, wrote |-> r.wrote]
           /\ fs' = IF r.wrote THEN [fs EXCEPT ![OutName] = r.file] ELSE fs
    /\ stderr' = <<>>
    /\ UNCHANGED <<xfm, self, M0>>

\* xfm = load(name, fmt, reference)
Load(name, fmt, reference) ==
    /\ Idle
    /\ \E r \in {load(fs[name], fmt, reference)} :
        /\ self' = IF r.slots = None THEN self ELSE r.slots
        /\ xfm' = IF r.exc = Ok THEN r.slots ELSE xfm
        /\ M0' = IF r.exc = Ok THEN r.arg ELSE M0
        /\ ret' = [op |-> "load", exc |-> r.exc, msg |-> "", name |-> name, fmt |-> fmt,
                   reference |-> reference, chained |-> FALSE, saved |-> None,
                   savefmt |-> <<>>]
        /\ stderr' = <<>>
        /\ UNCHANGED fs

\* xfm = load(OutName, fmt, reference) right after xfm.to_filename(OutName,
\* savefmt) returned: `saved` is the transform that was written
LoadBack(fmt, reference) ==
    /\ ret.op = "to_filename" /\ ret.exc = Ok
    /\ \E r \in {load(fs[OutName], fmt, reference)} :
        /\ self' = IF r.slots = None THEN self ELSE r.slots
        /\ xfm' = IF r.exc = Ok THEN r.slots ELSE xfm
        /\ M0' = IF r.exc = Ok THEN r.arg ELSE M0
        /\ ret' = [op |-> "load", exc |-> r.exc, msg |-> "", name |-> OutName, fmt |-> fmt,
                   reference |-> reference, chained |-> TRUE, saved |-> xfm,
                   savefmt |-> ret.fmt]
        /\ stderr' = <<>>
        /\ UNCHANGED fs

\* the caller moves on to its next call; an object whose construction
\* failed is dropped with the exception
Return ==
    /\ ~Idle
    /\ ret' = IdleRet
    /\ stderr' = <<>>
    /\ self' = None
    /\ UNCHANGED <<xfm, M0, fs>>

OptImages == Images \cup {None}
ImageArgs == OptImages \cup {Str(p) : p \in ImagePaths}
DtypeArgs == {None, Str("float64")}

\* A program that uses every operation, on a small choice of inputs.
FewMatrices == {None, M_GEN, M_PROJ, M_SING, M_3x4, M_1D}
FewImages == {None, IMG_ZOOM}
FewCoords == {Pt(<<1, 0, 1>>), Pt(<<0, 1>>), Pt(<<1, 0, 1, 1>>)}
FewFmts == {S_X5, S_ITK, S_afni, S_FSL}

Next ==
    \/ \E m \in FewMatrices, r \in FewImages : Construct(m, r)
    \/ SetReference(IMG_ZOOM)
    \/ \E c \in FewCoords, f \in BOOLEAN : MapPoint(c, f)
    \/ MapPointBack
    \/ \E c \in FewCoords, m \in FewImages : MapVoxel(c, m)
    \/ \E d \in DtypeArgs : Resample(IMG_ZOOM, d)
    \/ \E f \in FewFmts, m \in FewImages : ToFilename(f, m)
    \/ \E n \in FileNames, f \in FewFmts, r \in FewImages : Load(n, f, r)
    \/ \E f \in FewFmts, r \in FewImages : LoadBack(f, r)
    \/ Return

Spec == Init /\ [][Next]_vars

\* A program that constructs transforms and maps points, voxels and images,
\* on every input.
NextMap ==
    \/ \E m \in MatrixArgs, r \in OptImages : Construct(m, r)
    \/ \E i \in Images : SetReference(i)
    \/ \E c \in CoordArgs, f \in BOOLEAN : MapPoint(c, f)
    \/ MapPointBack
    \/ \E c \in CoordArgs, m \in OptImages : MapVoxel(c, m)
    \/ \E m \in Images, d \in DtypeArgs : Resample(m, d)
    \/ Return

SpecMap == Init /\ [][NextMap]_vars

\* A program that writes transforms to file and loads them back, in every
\* format, without naming a moving image.
NextFile ==
    \/ \E m \in MatrixArgs : Construct(m, None)
    \/ \E f \in FmtArgs : ToFilename(f, None)
    \/ \E n \in FileNames, f \in FmtArgs, r \in {None, Str("wide.nii")} : Load(n, f, r)
    \/ \E f \in FmtArgs, r \in {None, Str("wide.nii")} : LoadBack(f, r)
    \/ Return

SpecFile == Init /\ [][NextFile]_vars

\* A program that exports transforms for FSL, for every pair of reference
\* and moving image.
NextFsl ==
    \/ \E m \in {None, M_GEN, M_SING, M_PLANE}, r \in OptImages : Construct(m, r)
    \/ \E i \in Images : SetReference(i)
    \/ \E f \in {S_fsl, S_FSL}, m \in ImageArgs : ToFilename(f, m)
    \/ Return

SpecFsl == Init /\ [][NextFsl]_vars

(***************************************************************************)
(* Properties                                                              *)
(***************************************************************************)
\* a square 2-D matrix whose last row is (0, ..., 0, 1)
IsHomogeneous(a) ==
    /\ ndim(a) = 2
    /\ a.shape[1] = a.shape[2]
    /\ \A j \in 1..a.shape[2] :
          a.v[a.shape[1]][j] = IF j = a.shape[2] THEN R(1) ELSE R(0)

\* what Affine.__init__ accepts: 2-D or 3-D with equal leading axes
ValidShape(a) == ndim(a) \in {2, 3} /\ a.shape[1] = a.shape[2]

\* the matrix Affine(M) is to hold: M, or the 4x4 identity when M is omitted
Given(M) == IF IsNone(M) THEN NdArray2(Eye(4)) ELSE M

\* C1: for a square invertible homogeneous matrix M and a point p with one
\* element fewer than M has rows, mapping p with map_point in one direction
\* and the result in the other direction returns p.
C1_MapPointRoundTrip ==
    (/\ Ready
     /\ ret.op = "map_point" /\ ret.chained
     /\ IsHomogeneous(xfm._matrix) /\ ~Singular(xfm._matrix.v)
     /\ Len(ret.origin) = xfm._matrix.shape[1] - 1)
    => (ret.exc = Ok /\ ret.val = ret.origin)

\* forward then inverse through a matrix whose inverse is not integral
C1_Witness ==
    /\ Ready
    /\ xfm._matrix = M_GEN
    /\ ret.op = "map_point" /\ ret.chained /\ ~ret.forward
    /\ ret.origin = Pt(<<1, 0, 1>>)
    /\ ret.coords # ret.origin
    /\ ret.exc = Ok /\ ret.val = ret.origin

\* C3: the matrix of a constructed transform equals the matrix it was
\* constructed from, and stays equal to it whatever calls follow.
C3_MatrixUnchanged == Live => matrix_of(xfm) = Given(M0)

\* a failing map_point on a transform that was given a reference
C3_Witness ==
    /\ Live
    /\ M0 = M_GEN /\ matrix_of(xfm) = M_GEN
    /\ ~IsNone(xfm._reference)
    /\ ret.op = "map_point" /\ ret.exc = "ValueError"

\* C4: construction raises the validation error exactly for an array that
\* is not 2-D or 3-D or whose first two axes differ, and then yields no
\* transform; otherwise it succeeds and holds the matrix, the 4x4 identity
\* when the matrix is omitted.
C4_Construction ==
    ret.op = "Affine" =>
        IF IsNone(ret.matrix) \/ ValidShape(ret.matrix)
        THEN ret.exc = Ok /\ Live /\ matrix_of(xfm) = Given(ret.matrix)
        ELSE /\ ret.exc = "AssertionError"
             /\ Live => matrix_of(xfm) # ret.matrix

\* a 3x4 matrix is refused while the caller still holds the stack built before
C4_Witness ==
    /\ ret.op = "Affine" /\ ret.matrix = M_3x4 /\ ret.exc = "AssertionError"
    /\ Live /\ matrix_of(xfm) = M_STACK

\* C9 as stated: the matrix slot of an object under construction is never
\* assigned a value that fails validation.
C9_ValidatedBeforeAssigned ==
    (self.kind = "Affine" /\ self._matrix.kind = "ndarray") => ValidShape(self._matrix)

\* C9 amended: a call that raises leaves the transform the caller holds as
\* it was, and the caller never holds a transform whose matrix fails
\* validation or whose reference slot was left unassigned.
C9_NoPartialMutation ==
    [][/\ ret'.exc # Ok => xfm' = xfm
       /\ xfm'.kind = "Affine" =>
             (ValidShape(xfm'._matrix) /\ xfm'._reference.kind \in {"None", "space"})]_vars

\* a construction that failed after the matrix slot was assigned, while the
\* caller holds a transform built before
C9_Witness ==
    /\ ret.op = "Affine" /\ ret.exc = "AssertionError"
    /\ self.kind = "Affine" /\ self._matrix = M_3x4 /\ self._reference = Unset
    /\ Live /\ ValidShape(xfm._matrix)

\* the index as map_voxel applies it: with a 1 appended when it is one short
Homog(index, n) == IF Len(index) = n - 1 THEN Append(index, R(1)) ELSE index

\* the transform holds a 4x4 matrix and the index has 3 or 4 elements
Fits3D(index) == xfm._matrix.shape = <<4, 4>> /\ Len(index) \in {3, 4}

\* C5: map_voxel raises 'Reference and moving spaces are both undefined', and
\* returns no voxel, exactly when the transform has no reference and moving
\* is None.
C5_BothUndefined ==
    (Ready /\ ret.op = "map_voxel") =>
        /\ (ret.exc = "ValueError" /\ ret.msg = BothUndefined)
              <=> (IsNone(xfm._reference) /\ IsNone(ret.moving))
        /\ ret.msg = BothUndefined => ret.val = <<>>

\* the call with neither space defined
C5_Witness ==
    /\ Ready /\ ret.op = "map_voxel"
    /\ IsNone(xfm._reference) /\ IsNone(ret.moving)
    /\ ret.exc = "ValueError" /\ ret.msg = BothUndefined /\ ret.val = <<>>

\* C6: without a reference but with a moving image V, map_voxel and resample
\* print the warning and go on with V as the reference: map_voxel applies
\* V.affine * M * inverse(V.affine), resample returns an image on V's grid
\* and affine.  With a reference R and moving=None, map_voxel uses R as the
\* moving space, silently.
C6_MovingAsReference ==
    /\ (Ready /\ ret.op = "map_voxel" /\ IsNone(xfm._reference) /\ ~IsNone(ret.moving)) =>
          /\ stderr = <<NoReferenceWarning>>
          /\ ret.msg # BothUndefined
          /\ Fits3D(ret.index) =>
                /\ ret.exc = Ok
                /\ ret.val = ButLast(MatVec(
                      MatMul(ret.moving.affine,
                             MatMul(xfm._matrix.v, Inv(ret.moving.affine))),
                      Homog(ret.index, 4)))
    /\ (Ready /\ ret.op = "resample" /\ IsNone(xfm._reference)) =>
          /\ stderr = <<NoReferenceWarning>>
          /\ xfm._matrix.shape = <<4, 4>> =>
                /\ ret.exc = Ok
                /\ ret.val.affine = ret.moving.affine
                /\ ret.val.shape = ret.moving.shape
                /\ ret.val.data.output_shape = ret.moving.shape
    /\ (Ready /\ ret.op = "map_voxel" /\ ~IsNone(xfm._reference) /\ IsNone(ret.moving)) =>
          /\ stderr = <<>>
          /\ Fits3D(ret.index) =>
                /\ ret.exc = Ok
                /\ ret.val = ButLast(MatVec(
                      MatMul(xfm._reference.affine,
                             MatMul(xfm._matrix.v, Inv(xfm._reference.affine))),
                      Homog(ret.index, 4)))

\* map_voxel on a transform without reference, given a moving image whose
\* affine is not the identity
C6_Witness ==
    /\ Ready /\ ret.op = "map_voxel"
    /\ IsNone(xfm._reference) /\ ret.moving = IMG_ZOOM
    /\ xfm._matrix = M_GEN
    /\ ret.exc = Ok /\ Len(ret.val) = 3
    /\ stderr = <<NoReferenceWarning>>

\* C10 as stated: with reference R and moving image V, map_voxel(index, V)
\* returns inverse(V.affine) * matrix * R.affine applied to the homogeneous
\* index, the index to index matrix of resample.
C10_UniformConvention ==
    (/\ Ready /\ ret.op = "map_voxel" /\ ret.exc = Ok
     /\ ~IsNone(xfm._reference) /\ ~IsNone(ret.moving))
    => ret.val = ButLast(MatVec(
          MatMul(Inv(ret.moving.affine), MatMul(xfm._matrix.v, xfm._reference.affine)),
          Homog(ret.index, xfm._matrix.shape[1])))

\* a equals b to six significant digits: |a - b| <= 0.5e-5 * |b|
Close6(a, b) == RLe(RMul(R(200000), RAbs(RSub(a, b))), RAbs(b))
\* a whole number of at most six digits
Short6(b) == b[2] = 1 /\ Abs(b[1]) < 1000000

\* C2: a transform with a 4x4 matrix M whose last row is (0, 0, 0, 1),
\* written with an ITK-family format name in any letter case and loaded
\* back with an ITK-family format name, comes back as a transform whose
\* matrix equals M to six significant digits (exactly where the entry has no
\* more digits than that).
C2_ItkRoundTrip ==
    (/\ ret.op = "load" /\ ret.chained
     /\ Lower(ret.savefmt) \in ItkFamily /\ Lower(ret.fmt) \in ItkFamily
     /\ ret.saved._matrix.shape = <<4, 4>> /\ IsHomogeneous(ret.saved._matrix))
    => /\ ret.exc = Ok /\ Live
       /\ matrix_of(xfm).shape = <<4, 4>>
       /\ \A i \in 1..4, j \in 1..4 :
             /\ Close6(matrix_of(xfm).v[i][j], ret.saved._matrix.v[i][j])
             /\ Short6(ret.saved._matrix.v[i][j])
                   => matrix_of(xfm).v[i][j] = ret.saved._matrix.v[i][j]

\* written as 'Ants', read as 'itk': the seven-digit translation comes back
\* rounded, every other entry as it was
C2_Witness ==
    /\ ret.op = "load" /\ ret.chained /\ ret.exc = Ok
    /\ ret.savefmt = S_Ants /\ ret.fmt = S_itk
    /\ ret.saved._matrix = M_GEN
    /\ Live /\ matrix_of(xfm).v[1][4] = R(1234570)
    /\ matrix_of(xfm).v[2] = M_GEN.v[2]

\* the 1-based positions of the linear block that change sign between RAS
\* and LPS, and the sign of each of the twelve parameters
SignFlipped == {<<1, 3>>, <<2, 3>>, <<3, 1>>, <<3, 2>>}
ItkSign(i, j) == IF <<i, j>> \in SignFlipped \/ (j = 4 /\ i \in {1, 2}) THEN R(-1) ELSE R(1)

\* C8: to_filename with an ITK-family format writes five lines; the fourth,
\* 'Parameters:', holds the nine entries of the linear block of M row by row
\* and then its translation column, with entries (0,2), (1,2), (2,0), (2,1)
\* and the first two translations negated, each as '%g' text; the fifth is
\* 'FixedParameters: 0 0 0'.
C8_ItkFileLayout ==
    (/\ Ready /\ ret.op = "to_filename" /\ ret.exc = Ok
     /\ Lower(ret.fmt) \in ItkFamily)
    => LET f == fs[OutName]
           M == matrix_of(xfm).v
       IN  /\ f.kind = "text" /\ Len(f.lines) = 5
           /\ f.lines[1] = Line("#Insight Transform File V1.0", <<>>)
           /\ f.lines[2] = Line("#Transform 0", <<>>)
           /\ f.lines[3] = Line("Transform: MatrixOffsetTransformBase_double_3_3", <<>>)
           /\ f.lines[4].text = "Parameters:" /\ Len(f.lines[4].nums) = 12
           /\ \A i \in 1..3, j \in 1..3 :
                 f.lines[4].nums[3 * (i - 1) + j] = FmtG(RMul(ItkSign(i, j), M[i][j]))
           /\ \A i \in 1..3 :
                 f.lines[4].nums[9 + i] = FmtG(RMul(ItkSign(i, 4), M[i][4]))
           /\ f.lines[5] = Line("FixedParameters:", <<Canon(0, 0), Canon(0, 0), Canon(0, 0)>>)

\* a matrix without zeros in its linear block, written as 'Ants'
C8_Witness ==
    /\ Ready /\ ret.op = "to_filename" /\ ret.exc = Ok /\ ret.fmt = S_Ants
    /\ matrix_of(xfm) = M_GEN
    /\ fs[OutName].lines[4].nums[3] = Canon(-3, 0)
    /\ fs[OutName].lines[4].nums[10] = Canon(-123457, 1)
    /\ fs[OutName].lines[4].nums[12] = Canon(5, 0)

\* the moving image the FSL branch works with
FslMoving == IF IsNone(ret.moving) THEN xfm._reference
             ELSE IF IsStr(ret.moving) THEN loadimg(ret.moving.s) ELSE ret.moving
FslExported == /\ Ready /\ ret.op = "to_filename" /\ ret.exc = Ok
               /\ Lower(ret.fmt) = S_fsl
\* the reflection of the first voxel axis of a grid of the given shape
XFlip(shape) == << <<R(-1), R(0), R(0), R(shape[1] - 1)>>, Eye(4)[2], Eye(4)[3], Eye(4)[4] >>

\* C7 as stated: with identity affines for reference and moving image, the
\* matrix written by to_filename(fmt='fsl') is inverse(matrix).
C7_IdentityExportsInverse ==
    (/\ FslExported
     /\ xfm._reference.affine = Eye(4) /\ FslMoving.affine = Eye(4))
    => fs[OutName] = fsl_file(Inv(matrix_of(xfm).v))

\* C7 amended: an identity affine has determinant 1 > 0, so its swap is the
\* reflection of the first voxel axis, and the matrix written is
\* swp(reference) * inverse(matrix) * swp(moving).  Where both affines have
\* a negative determinant and unit voxels, the swaps and scalings are the
\* identity and the matrix written is
\* inverse(inverse(moving.affine) * matrix * reference.affine).
C7_FslExport ==
    /\ (/\ FslExported
        /\ xfm._reference.affine = Eye(4) /\ FslMoving.affine = Eye(4))
       => fs[OutName] = fsl_file(MatMul(XFlip(xfm._reference.shape),
                                        MatMul(Inv(matrix_of(xfm).v),
                                               XFlip(FslMoving.shape))))
    /\ (/\ FslExported
        /\ xfm._reference.affine = IMG_FLIP.affine /\ FslMoving.affine = IMG_FLIP.affine)
       => fs[OutName] = fsl_file(Inv(MatMul(Inv(FslMoving.affine),
                                            MatMul(matrix_of(xfm).v,
                                                   xfm._reference.affine))))

\* identity affines on grids of different width: what is written is not
\* inverse(matrix)
C7_Witness ==
    /\ FslExported
    /\ xfm._reference = ImageSpace(IMG_UNIT) /\ ret.moving = Str("wide.nii")
    /\ matrix_of(xfm) = M_GEN
    /\ fs[OutName] # fsl_file(Inv(M_GEN.v))

\* the file holds a fourth line with exactly twelve values after its colon
TwelveParameters(f) ==
    f.kind = "text" /\ Len(f.lines) >= 4 /\ Len(f.lines[4].nums) = 12

\* C11: load returns a transform only for an ITK-family format name (in any
\* letter case) and a file whose Parameters line holds exactly twelve
\* values; for any other format name or parameter count the call raises,
\* constructs no transform and leaves the caller with what it held before.
C11_LoadOnlyItkTwelve ==
    [][ret'.op = "load" =>
          LET good == Lower(ret'.fmt) \in ItkFamily /\ TwelveParameters(fs[ret'.name])
          IN  /\ ret'.exc = Ok => good
              /\ ~good => (ret'.exc # Ok /\ xfm' = xfm /\ self' = self)]_vars

\* the default format on a well-formed ITK file, while the caller holds a
\* transform constructed before
C11_Witness ==
    /\ ret.op = "load" /\ ret.fmt = S_X5 /\ ret.name = "centre.tfm"
    /\ TwelveParameters(fs[ret.name])
    /\ ret.exc = "UnboundLocalError"
    /\ Live /\ matrix_of(xfm) = M_GEN

====
